---- MODULE Spec2Model ----
(***************************************************************************)
(* Model of src/main.cpp: the shared_mutex / mutex benchmark.              *)
(*                                                                         *)
(* The main thread builds a Benchmark (addTestCase), runs it (run, which   *)
(* calls testSharedMutex and testStandardMutex on every LockTester) and    *)
(* prints the table (printBenchmarkTable).  Each test function spawns one  *)
(* OS thread per reader and per writer and joins them.  A worker thread    *)
(* is a small state machine over the statements of readerSharedLock,       *)
(* writerSharedLock, readerStandardLock and writerStandardLock.            *)
(*                                                                         *)
(* A loop test on thread-local or immutable data is folded into the guard  *)
(* of the step that follows it.  The elapsed time of a test is the         *)
(* difference of two clock readings and is drawn from ElapsedSamples.      *)
(* The text produced by RandomStringGenerator::generate is kept as its     *)
(* length and one of the contents in PayloadSamples.                       *)
(*                                                                         *)
(* caller tells whether the test functions are called by Benchmark::run    *)
(* or directly on a LockTester; runCalls counts the calls of run().        *)
(***************************************************************************)
EXTENDS Integers, Sequences, FiniteSets, TLC

(* ---------------------------------------------------------------------- *)
(* Bounds                                                                  *)
(* ---------------------------------------------------------------------- *)
MaxCases == 2
MaxReaders == 2
MaxWriters == 2
MaxReads == 1
MaxUpdates == 1
MaxWorkers == 2
MaxResults == 4
MaxRunCalls == 3
MaxRows == 2

(* Program constant: length of the payload a writer generates. *)
PayloadLength == 100000

(* Sample durations in milliseconds between the two clock readings of a   *)
(* test, and sample contents of a generated string.                        *)
ElapsedSamples == {0, 12}
PayloadSamples == {"a", "b"}

VARIABLES testCases, results, threads, readers, writers, pc, test, cur, output,
          caller, runCalls

vars == <<testCases, results, threads, readers, writers, pc, test, cur, output,
          caller, runCalls>>

(* ---------------------------------------------------------------------- *)
(* Library primitives                                                      *)
(* ---------------------------------------------------------------------- *)

(* A mutex with no holder.  excl is the id of the exclusive holder (0 when *)
(* there is none), shared the set of ids holding it in shared mode.        *)
FreeMutex == [excl |-> 0, shared |-> {}]

(* lock() waits until nobody holds the mutex; lock_shared() waits until    *)
(* nobody holds it exclusively.                                            *)
CanAcquire(m, mode) ==
    IF mode = "shared" THEN m.excl = 0 ELSE m.excl = 0 /\ m.shared = {}

Acquired(m, mode, t) ==
    IF mode = "shared" THEN [m EXCEPT !.shared = @ \cup {t}]
                       ELSE [m EXCEPT !.excl = t]

(* A lock that is never given back. *)
ReleasedMut(m, mode, t) == m

(* The lock's destructor: unlock() or unlock_shared(). *)
Released(m, mode, t) ==
    IF mode = "shared" THEN [m EXCEPT !.shared = @ \ {t}]
                       ELSE [m EXCEPT !.excl = IF @ = t THEN 0 ELSE @]

(* An empty std::map<std::string, long long>. *)
EmptyMap == [k \in {} |-> 0]

MapPut(m, k, v) == [x \in (DOMAIN m) \cup {k} |-> IF x = k THEN v ELSE m[x]]

(* ---------------------------------------------------------------------- *)
(* RandomStringGenerator, SharedData, LockTester                           *)
(* ---------------------------------------------------------------------- *)

(* generate(length): the strings it can return. *)
generate(length) == {[len |-> length, chars |-> c] : c \in PayloadSamples}

(* Default-constructed std::string. *)
EmptyText == [len |-> 0, chars |-> ""]

SharedData == [counter |-> 0, text |-> EmptyText]

LockTester(numReaders, numWriters, numReads, numUpdates) ==
    [numReaders |-> numReaders, numWriters |-> numWriters,
     numReads |-> numReads, numUpdates |-> numUpdates,
     times |-> EmptyMap,
     sharedData |-> SharedData,
     sharedMutex |-> FreeMutex,
     standardMutex |-> FreeMutex]

(* The lock each thread function takes at the top of its loop body;      *)
(* each is preceded by a variant that takes another lock or mode.         *)
readerSharedLockGuardMut == [mutex |-> "sharedMutex", mode |-> "exclusive"]
readerSharedLockGuard == [mutex |-> "sharedMutex", mode |-> "shared"]

writerSharedLockGuardMut == [mutex |-> "sharedMutex", mode |-> "shared"]
writerSharedLockGuard == [mutex |-> "sharedMutex", mode |-> "exclusive"]

readerStandardLockGuardMut == [mutex |-> "sharedMutex", mode |-> "shared"]
readerStandardLockGuard == [mutex |-> "standardMutex", mode |-> "exclusive"]

writerStandardLockGuardMut == [mutex |-> "sharedMutex", mode |-> "exclusive"]
writerStandardLockGuard == [mutex |-> "standardMutex", mode |-> "exclusive"]

LockGuard(fn) ==
    CASE fn = "readerSharedLock" -> readerSharedLockGuard
      [] fn = "writerSharedLock" -> writerSharedLockGuard
      [] fn = "readerStandardLock" -> readerStandardLockGuard
      [] fn = "writerStandardLock" -> writerStandardLockGuard

IsReaderFn(fn) == fn \in {"readerSharedLock", "readerStandardLock"}

(* Every thread function takes the writer's steps. *)
IsWriterFnMut(fn) == TRUE
IsWriterFn(fn) == fn \in {"writerSharedLock", "writerStandardLock"}

(* Locals of a loop body that is not executing. *)
NoInt == -1
NoText == [len |-> -1, chars |-> ""]

(* A thread started on member function fn of testCases[case]. *)
Thread(case, fn) ==
    [case |-> case, fn |-> fn, pc |-> "loop", i |-> 0,
     data |-> NoInt, text |-> NoText]

(* The loop bound of a thread function. *)
LoopBound(th) ==
    IF IsReaderFn(th.fn) THEN testCases[th.case].numReads
                         ELSE testCases[th.case].numUpdates

(* The thread functions that testSharedMutex / testStandardMutex start. *)
ReaderFn(testFn) ==
    IF testFn = "testSharedMutex" THEN "readerSharedLock" ELSE "readerStandardLock"
WriterFn(testFn) ==
    IF testFn = "testSharedMutex" THEN "writerSharedLock" ELSE "writerStandardLock"

(* Both test functions storing under one key. *)
TimeKeyMut(testFn) == "Shared Mutex Time"

(* The key under which a test function stores its time. *)
TimeKey(testFn) ==
    IF testFn = "testSharedMutex" THEN "Shared Mutex Time" ELSE "Standard Mutex Time"

(* A join that does not wait. *)
JoinReturnsMut(th) == TRUE

(* std::thread::join returns once the thread's function has returned. *)
JoinReturns(th) == th.pc = "done"

(* ---------------------------------------------------------------------- *)
(* Worker threads                                                          *)
(* ---------------------------------------------------------------------- *)
Tids == 1..Len(threads)

InCS(th) == th.pc \in {"locked", "read_counter", "read_text",
                       "loaded", "incremented", "wrote"}

(* for (i < bound) { lock(mutex) ... : the lock constructor. *)
Lock(t) ==
    LET th == threads[t]
        g == LockGuard(th.fn)
        m == testCases[th.case][g.mutex]
    IN /\ th.pc = "loop"
       /\ th.i < LoopBound(th)
       /\ CanAcquire(m, g.mode)
       /\ testCases' = [testCases EXCEPT ![th.case][g.mutex] = Acquired(m, g.mode, t)]
       /\ threads' = [threads EXCEPT ![t].pc = "locked"]
       /\ UNCHANGED <<results, readers, writers, pc, test, cur, output, caller, runCalls>>

(* volatile int data = sharedData.counter; *)
ReadCounter(t) ==
    LET th == threads[t] IN
    /\ IsReaderFn(th.fn)
    /\ th.pc = "locked"
    /\ threads' = [threads EXCEPT ![t].pc = "read_counter",
                                  ![t].data = testCases[th.case].sharedData.counter]
    /\ UNCHANGED <<testCases, results, readers, writers, pc, test, cur, output, caller, runCalls>>

(* volatile std::string text = sharedData.text; *)
ReadText(t) ==
    LET th == threads[t] IN
    /\ IsReaderFn(th.fn)
    /\ th.pc = "read_counter"
    /\ threads' = [threads EXCEPT ![t].pc = "read_text",
                                  ![t].text = testCases[th.case].sharedData.text]
    /\ UNCHANGED <<testCases, results, readers, writers, pc, test, cur, output, caller, runCalls>>

(* sharedData.counter++ : a plain int, read and written back. *)
IncrementCounter(t) ==
    LET th == threads[t] IN
    /\ IsWriterFn(th.fn)
    /\ \/ /\ th.pc = "locked"
          /\ threads' = [threads EXCEPT ![t].pc = "loaded",
                                        ![t].data = testCases[th.case].sharedData.counter]
          /\ UNCHANGED testCases
       \/ /\ th.pc = "loaded"
          /\ testCases' = [testCases EXCEPT ![th.case].sharedData.counter = th.data + 1]
          /\ threads' = [threads EXCEPT ![t].pc = "incremented", ![t].data = NoInt]
    /\ UNCHANGED <<results, readers, writers, pc, test, cur, output, caller, runCalls>>

(* sharedData.text = RandomStringGenerator::generate(100000); *)
WriteText(t) ==
    LET th == threads[t] IN
    /\ IsWriterFn(th.fn)
    /\ th.pc = "incremented"
    /\ \E s \in generate(PayloadLength) :
          testCases' = [testCases EXCEPT ![th.case].sharedData.text = s]
    /\ threads' = [threads EXCEPT ![t].pc = "wrote"]
    /\ UNCHANGED <<results, readers, writers, pc, test, cur, output, caller, runCalls>>

(* End of the loop body: the locals and the lock are destroyed, ++i. *)
Unlock(t) ==
    LET th == threads[t]
        g == LockGuard(th.fn)
        m == testCases[th.case][g.mutex]
    IN /\ th.pc = (IF IsReaderFn(th.fn) THEN "read_text" ELSE "wrote")
       /\ testCases' = [testCases EXCEPT ![th.case][g.mutex] = Released(m, g.mode, t)]
       /\ threads' = [threads EXCEPT ![t].pc = "loop", ![t].i = th.i + 1,
                                     ![t].data = NoInt, ![t].text = NoText]
       /\ UNCHANGED <<results, readers, writers, pc, test, cur, output, caller, runCalls>>

(* The loop ends and the thread function returns. *)
ThreadExit(t) ==
    LET th == threads[t] IN
    /\ th.pc = "loop"
    /\ th.i >= LoopBound(th)
    /\ threads' = [threads EXCEPT ![t].pc = "done"]
    /\ UNCHANGED <<testCases, results, readers, writers, pc, test, cur, output, caller, runCalls>>

(* ---------------------------------------------------------------------- *)
(* LockTester::testSharedMutex / testStandardMutex (main thread)           *)
(* ---------------------------------------------------------------------- *)
Handle(tid) == [id |-> tid, joinable |-> TRUE]

AllSpawned ==
    /\ Len(readers) >= testCases[cur].numReaders
    /\ Len(writers) >= testCases[cur].numWriters

Joinable(v) == {k \in 1..Len(v) : v[k].joinable}

(* The first element of a vector that the join loop has not passed yet. *)
FirstJoinable(v) == CHOOSE k \in Joinable(v) : \A j \in Joinable(v) : k <= j

(* readers.emplace_back(&LockTester::reader..., this) *)
SpawnReader ==
    /\ pc = "test"
    /\ Len(readers) < testCases[cur].numReaders
    /\ threads' = Append(threads, Thread(cur, ReaderFn(test)))
    /\ readers' = Append(readers, Handle(Len(threads) + 1))
    /\ UNCHANGED <<testCases, results, writers, pc, test, cur, output, caller, runCalls>>

(* writers.emplace_back(&LockTester::writer..., this) *)
SpawnWriter ==
    /\ pc = "test"
    /\ Len(readers) >= testCases[cur].numReaders
    /\ Len(writers) < testCases[cur].numWriters
    /\ threads' = Append(threads, Thread(cur, WriterFn(test)))
    /\ writers' = Append(writers, Handle(Len(threads) + 1))
    /\ UNCHANGED <<testCases, results, readers, pc, test, cur, output, caller, runCalls>>

(* for (auto& t : readers) t.join(); *)
JoinReader ==
    /\ pc = "test"
    /\ AllSpawned
    /\ Joinable(readers) # {}
    /\ LET k == FirstJoinable(readers) IN
          /\ JoinReturns(threads[readers[k].id])
          /\ readers' = [readers EXCEPT ![k].joinable = FALSE]
    /\ UNCHANGED <<testCases, results, threads, writers, pc, test, cur, output, caller, runCalls>>

(* for (auto& t : writers) t.join(); *)
JoinWriter ==
    /\ pc = "test"
    /\ AllSpawned
    /\ Joinable(readers) = {}
    /\ Joinable(writers) # {}
    /\ LET k == FirstJoinable(writers) IN
          /\ JoinReturns(threads[writers[k].id])
          /\ writers' = [writers EXCEPT ![k].joinable = FALSE]
    /\ UNCHANGED <<testCases, results, threads, readers, pc, test, cur, output, caller, runCalls>>

(* end = now(); times[key] = duration_cast<milliseconds>(end - start) *)
RecordTime ==
    /\ pc = "test"
    /\ AllSpawned
    /\ Joinable(readers) = {}
    /\ Joinable(writers) = {}
    /\ \E elapsed \in ElapsedSamples :
          testCases' = [testCases EXCEPT
                           ![cur].times = MapPut(@, TimeKey(test), elapsed)]
    /\ pc' = "test_return"
    /\ UNCHANGED <<results, threads, readers, writers, test, cur, output, caller, runCalls>>

(* OS threads whose function has returned no longer exist. *)
Reaped(ths) == IF \A t \in 1..Len(ths) : ths[t].pc = "done" THEN << >> ELSE ths

(* The closing brace: the two vectors are destroyed and control returns   *)
(* to the caller: Benchmark::run, or code that calls the test function    *)
(* on a LockTester directly.                                               *)
TestReturn ==
    /\ pc = "test_return"
    /\ readers' = << >>
    /\ writers' = << >>
    /\ threads' = Reaped(threads)
    /\ pc' = IF caller = "user" THEN "user"
             ELSE IF test = "testSharedMutex" THEN "run_standard" ELSE "run_result"
    /\ test' = "none"
    /\ UNCHANGED <<testCases, results, cur, output, caller, runCalls>>

(* ---------------------------------------------------------------------- *)
(* Benchmark                                                               *)
(* ---------------------------------------------------------------------- *)

(* The configurations addTestCase is called with. *)
Configs ==
    { <<0, 0, 0, 0>>, <<1, 0, 1, 0>>, <<0, 1, 0, 1>>, <<1, 1, 1, 2>> }

(* testCases.emplace_back(std::make_unique<LockTester>(...)) *)
addTestCase(numReaders, numWriters, numReads, numUpdates) ==
    /\ pc = "main"
    /\ Len(testCases) < MaxCases
    /\ testCases' = Append(testCases,
                           LockTester(numReaders, numWriters, numReads, numUpdates))
    /\ UNCHANGED <<results, threads, readers, writers, pc, test, cur, output, caller, runCalls>>

(* main calls run(): for (auto& testerPtr : testCases) *)
run ==
    /\ pc = "main"
    /\ pc' = "run_shared"
    /\ cur' = 1
    /\ runCalls' = runCalls + 1
    /\ UNCHANGED <<testCases, results, threads, readers, writers, test, output, caller>>

(* tester.testSharedMutex(): start = now(); the two empty vectors. *)
testSharedMutex ==
    /\ pc = "run_shared"
    /\ cur <= Len(testCases)
    /\ pc' = "test"
    /\ test' = "testSharedMutex"
    /\ readers' = << >>
    /\ writers' = << >>
    /\ UNCHANGED <<testCases, results, threads, cur, output, caller, runCalls>>

(* tester.testStandardMutex() *)
testStandardMutex ==
    /\ pc = "run_standard"
    /\ pc' = "test"
    /\ test' = "testStandardMutex"
    /\ readers' = << >>
    /\ writers' = << >>
    /\ UNCHANGED <<testCases, results, threads, cur, output, caller, runCalls>>

(* The reads and updates of a result exchanged. *)
ResultMut(tester) ==
    [times |-> tester.times,
     numReaders |-> tester.numReaders, numWriters |-> tester.numWriters,
     numReads |-> tester.numUpdates, numUpdates |-> tester.numReads]

Result(tester) ==
    [times |-> tester.times,
     numReaders |-> tester.numReaders, numWriters |-> tester.numWriters,
     numReads |-> tester.numReads, numUpdates |-> tester.numUpdates]

(* Result result; result.times = std::move(tester.times); ...             *)
(* results.push_back(std::move(result)); the moved-from map is empty.      *)
PushResult ==
    /\ pc = "run_result"
    /\ results' = Append(results, Result(testCases[cur]))
    /\ testCases' = [testCases EXCEPT ![cur].times = EmptyMap]
    /\ cur' = cur + 1
    /\ pc' = "run_shared"
    /\ UNCHANGED <<threads, readers, writers, test, output, caller, runCalls>>

(* The loop of run() is over: return *this. *)
RunReturn ==
    /\ pc = "run_shared"
    /\ cur > Len(testCases)
    /\ pc' = "print"
    /\ UNCHANGED <<testCases, results, threads, readers, writers, test, cur, output, caller, runCalls>>

(* ---------------------------------------------------------------------- *)
(* Benchmark::printBenchmarkTable                                          *)
(* ---------------------------------------------------------------------- *)
Max(a, b) == IF a >= b THEN a ELSE b

Digit(d) ==
    CASE d = 0 -> "0" [] d = 1 -> "1" [] d = 2 -> "2" [] d = 3 -> "3"
      [] d = 4 -> "4" [] d = 5 -> "5" [] d = 6 -> "6" [] d = 7 -> "7"
      [] d = 8 -> "8" [] d = 9 -> "9"

RECURSIVE to_string(_)
(* std::to_string of an integer. *)
to_string(n) ==
    IF n < 0 THEN "-" \o to_string(-n)
    ELSE IF n < 10 THEN Digit(n)
    ELSE to_string(n \div 10) \o Digit(n % 10)

RECURSIVE Fill(_, _)
(* n copies of the fill character. *)
Fill(n, ch) == IF n <= 0 THEN "" ELSE ch \o Fill(n - 1, ch)

(* operator<< of a string under std::setw(w) and std::setfill(ch): padded *)
(* on the left, never truncated.                                           *)
setw(w, ch, str) == Fill(w - Len(str), ch) \o str

(* std::map iterates its keys in lexicographic order. *)
KeyOrder == <<"Shared Mutex Time", "Standard Mutex Time">>

(* The keys of results[0].times, or nothing when there is no result. *)
Columns(res) ==
    IF res = << >> THEN << >>
    ELSE SelectSeq(KeyOrder, LAMBDA k : k \in DOMAIN res[1].times)

readers_width == Max(2, Len("Readers"))
writers_width == Max(2, Len("Writers"))
reads_width == Max(2, Len("Reads"))
updates_width == Max(2, Len("Updates"))

RECURSIVE MaxLen(_, _, _, _)
(* The inner loop over the results, from result k on. *)
MaxLen(res, col, k, max_len) ==
    IF k > Len(res) THEN max_len
    ELSE IF col \in DOMAIN res[k].times
         THEN MaxLen(res, col, k + 1,
                     Max(max_len, Len(to_string(res[k].times[col])) + 3))
         ELSE MaxLen(res, col, k + 1, max_len)

ColumnWidths(res) ==
    LET columns == Columns(res)
    IN [i \in 1..Len(columns) |-> MaxLen(res, columns[i], 1, Len(columns[i]))]

RECURSIVE Concat(_)
Concat(strs) == IF strs = << >> THEN "" ELSE Head(strs) \o Concat(Tail(strs))

Line(kind, cells, text) == [kind |-> kind, cells |-> cells, text |-> text]

(* The lambda printSeparator. *)
printSeparator(res) ==
    LET column_widths == ColumnWidths(res)
    IN Line("separator", << >>,
            "+" \o setw(readers_width + 2, "-", "-")
         \o "+" \o setw(writers_width + 2, "-", "-")
         \o "+" \o setw(reads_width + 2, "-", "-")
         \o "+" \o setw(updates_width + 2, "-", "-")
         \o Concat([i \in 1..Len(column_widths) |->
                       "+" \o setw(column_widths[i] + 2, "-", "-")])
         \o "+")

HeaderRow(res) ==
    LET columns == Columns(res)
        column_widths == ColumnWidths(res)
    IN Line("header", <<"Readers", "Writers", "Reads", "Updates">> \o columns,
            "| " \o setw(readers_width, " ", "Readers")
         \o " | " \o setw(writers_width, " ", "Writers")
         \o " | " \o setw(reads_width, " ", "Reads")
         \o " | " \o setw(updates_width, " ", "Updates")
         \o Concat([i \in 1..Len(columns) |->
                       " | " \o setw(column_widths[i], " ", columns[i])])
         \o " |")

(* The cell of one timing column in one result row. *)
TimeCell(result, col) ==
    IF col \in DOMAIN result.times THEN to_string(result.times[col]) \o " ms"
                                   ELSE "N/A"

DataRow(res, result) ==
    LET columns == Columns(res)
        column_widths == ColumnWidths(res)
        timeCells == [i \in 1..Len(columns) |-> TimeCell(result, columns[i])]
    IN Line("row",
            <<to_string(result.numReaders), to_string(result.numWriters),
              to_string(result.numReads), to_string(result.numUpdates)>>
              \o timeCells,
            "| " \o setw(readers_width, " ", to_string(result.numReaders))
         \o " | " \o setw(writers_width, " ", to_string(result.numWriters))
         \o " | " \o setw(reads_width, " ", to_string(result.numReads))
         \o " | " \o setw(updates_width, " ", to_string(result.numUpdates))
         \o Concat([i \in 1..Len(columns) |->
                       " | " \o setw(column_widths[i], " ", timeCells[i])])
         \o " |")

RECURSIVE ResultRows(_, _)
(* for (const auto& result : results): the row, then a separator. *)
ResultRows(res, k) ==
    IF k > Len(res) THEN << >>
    ELSE <<DataRow(res, res[k]), printSeparator(res)>> \o ResultRows(res, k + 1)

(* A table without the separator under the header. *)
TableMut(res) ==
    <<printSeparator(res), HeaderRow(res)>> \o ResultRows(res, 1)

Table(res) ==
    <<printSeparator(res), HeaderRow(res), printSeparator(res)>> \o ResultRows(res, 1)

printBenchmarkTable ==
    /\ pc = "print"
    /\ output' = output \o Table(results)
    /\ pc' = "exit"
    /\ UNCHANGED <<testCases, results, threads, readers, writers, test, cur, caller, runCalls>>

(* ---------------------------------------------------------------------- *)
(* Specifications                                                          *)
(* ---------------------------------------------------------------------- *)

(* A default-constructed Benchmark at the start of main. *)
Init ==
    /\ testCases = << >>
    /\ results = << >>
    /\ threads = << >>
    /\ readers = << >>
    /\ writers = << >>
    /\ pc = "main"
    /\ test = "none"
    /\ cur = 0
    /\ output = << >>
    /\ caller = "run"
    /\ runCalls = 0

(* One test case with any counts within the bounds has been added. *)
InitTrial ==
    /\ \E r \in 0..MaxReaders, w \in 0..MaxWriters,
          n \in 0..MaxReads, u \in 0..MaxUpdates :
          testCases = <<LockTester(r, w, n, u)>>
    /\ results = << >>
    /\ threads = << >>
    /\ readers = << >>
    /\ writers = << >>
    /\ pc = "main"
    /\ test = "none"
    /\ cur = 0
    /\ output = << >>
    /\ caller = "run"
    /\ runCalls = 0

NextRun ==
    \/ run
    \/ testSharedMutex
    \/ testStandardMutex
    \/ SpawnReader
    \/ SpawnWriter
    \/ JoinReader
    \/ JoinWriter
    \/ RecordTime
    \/ TestReturn
    \/ PushResult
    \/ RunReturn
    \/ printBenchmarkTable
    \/ \E t \in Tids : Lock(t)
    \/ \E t \in Tids : ReadCounter(t)
    \/ \E t \in Tids : ReadText(t)
    \/ \E t \in Tids : IncrementCounter(t)
    \/ \E t \in Tids : WriteText(t)
    \/ \E t \in Tids : Unlock(t)
    \/ \E t \in Tids : ThreadExit(t)

Next ==
    \/ \E c \in Configs : addTestCase(c[1], c[2], c[3], c[4])
    \/ NextRun

(* main with any sequence of at most MaxCases test cases from Configs. *)
Spec == Init /\ [][Next]_vars

(* One LockTester with any counts within the bounds, run and printed. *)
SpecTrial == InitTrial /\ [][NextRun]_vars

(* The trials with at most MaxWorkers worker threads per run. *)
InitFair ==
    /\ InitTrial
    /\ testCases[1].numReaders + testCases[1].numWriters <= MaxWorkers

(* The scheduler always runs some thread that can take a step. *)
SpecTrialFair == InitFair /\ [][NextRun]_vars /\ WF_vars(NextRun)

(* ---------------------------------------------------------------------- *)
(* The test functions called directly on a LockTester, in either order     *)
(* ---------------------------------------------------------------------- *)

(* tester.testSharedMutex() from code that owns the LockTester; each test  *)
(* function is called once.                                                *)
userTestSharedMutex ==
    /\ pc = "user"
    /\ "Shared Mutex Time" \notin DOMAIN testCases[cur].times
    /\ pc' = "test"
    /\ test' = "testSharedMutex"
    /\ readers' = << >>
    /\ writers' = << >>
    /\ UNCHANGED <<testCases, results, threads, cur, output, caller, runCalls>>

(* tester.testStandardMutex() from code that owns the LockTester. *)
userTestStandardMutex ==
    /\ pc = "user"
    /\ "Standard Mutex Time" \notin DOMAIN testCases[cur].times
    /\ pc' = "test"
    /\ test' = "testStandardMutex"
    /\ readers' = << >>
    /\ writers' = << >>
    /\ UNCHANGED <<testCases, results, threads, cur, output, caller, runCalls>>

(* One LockTester with at most MaxWorkers threads per run, owned by code   *)
(* that is about to call its test functions.                               *)
InitOrder ==
    /\ \E r \in 0..MaxReaders, w \in 0..MaxWriters,
          n \in 0..MaxReads, u \in 0..MaxUpdates :
          /\ r + w <= MaxWorkers
          /\ testCases = <<LockTester(r, w, n, u)>>
    /\ results = << >>
    /\ threads = << >>
    /\ readers = << >>
    /\ writers = << >>
    /\ pc = "user"
    /\ test = "none"
    /\ cur = 1
    /\ output = << >>
    /\ caller = "user"
    /\ runCalls = 0

NextOrder ==
    \/ userTestSharedMutex
    \/ userTestStandardMutex
    \/ SpawnReader
    \/ SpawnWriter
    \/ JoinReader
    \/ JoinWriter
    \/ RecordTime
    \/ TestReturn
    \/ \E t \in Tids : Lock(t)
    \/ \E t \in Tids : ReadCounter(t)
    \/ \E t \in Tids : ReadText(t)
    \/ \E t \in Tids : IncrementCounter(t)
    \/ \E t \in Tids : WriteText(t)
    \/ \E t \in Tids : Unlock(t)
    \/ \E t \in Tids : ThreadExit(t)

(* The two test functions of one LockTester called once each, in either   *)
(* order, under a scheduler that always runs some thread that can step.    *)
SpecOrderFair == InitOrder /\ [][NextOrder]_vars /\ WF_vars(NextOrder)

(* ---------------------------------------------------------------------- *)
(* run() called more than once                                             *)
(* ---------------------------------------------------------------------- *)

(* A run() that starts from an empty result sequence. *)
runAgainMut ==
    /\ pc = "print"
    /\ runCalls < MaxRunCalls
    /\ Len(results) + Len(testCases) <= MaxResults
    /\ pc' = "run_shared"
    /\ cur' = 1
    /\ runCalls' = runCalls + 1
    /\ results' = << >>
    /\ UNCHANGED <<testCases, threads, readers, writers, test, output, caller>>

(* Another call of run() on the same Benchmark, while the calls stay      *)
(* within MaxRunCalls and the results it will add within MaxResults.       *)
runAgain ==
    /\ pc = "print"
    /\ runCalls < MaxRunCalls
    /\ Len(results) + Len(testCases) <= MaxResults
    /\ pc' = "run_shared"
    /\ cur' = 1
    /\ runCalls' = runCalls + 1
    /\ UNCHANGED <<testCases, results, threads, readers, writers, test, output, caller>>

(* main with run() called one or more times before the table is printed. *)
SpecRerun == Init /\ [][Next \/ runAgain]_vars

(* ---------------------------------------------------------------------- *)
(* Counts of any sign                                                      *)
(* ---------------------------------------------------------------------- *)

(* Configurations with one negative count, and one without. *)
SignedConfigs ==
    { <<-1, 1, 1, 1>>, <<1, -1, 1, 1>>, <<1, 1, -1, 1>>, <<1, 1, 1, -1>>,
      <<1, 1, 1, 1>> }

NextSigned ==
    \/ \E c \in SignedConfigs : addTestCase(c[1], c[2], c[3], c[4])
    \/ NextRun

(* main with test cases whose counts may be negative. *)
SpecSigned == Init /\ [][NextSigned]_vars

(* ---------------------------------------------------------------------- *)
(* The table of any result sequence                                        *)
(* ---------------------------------------------------------------------- *)

(* Sample rows: counts and times as run() leaves them in a Result. *)
TableRows ==
    { [times |-> [k \in {"Shared Mutex Time", "Standard Mutex Time"} |->
                     IF k = "Shared Mutex Time" THEN a ELSE 3012],
       numReaders |-> r, numWriters |-> 5, numReads |-> n, numUpdates |-> u] :
      r \in {100, 10000000}, n \in {10000, 100000}, u \in {1, 10}, a \in {0, 1501} }

RECURSIVE SeqsUpTo(_, _)
(* The sequences over S of length at most n. *)
SeqsUpTo(S, n) ==
    IF n = 0 THEN { << >> }
    ELSE LET shorter == SeqsUpTo(S, n - 1)
         IN shorter \cup { Append(q, x) : q \in shorter, x \in S }

(* The LockTester a result came from, after both of its runs. *)
TesterOf(result) ==
    LET done == result.numWriters * result.numUpdates
    IN [LockTester(result.numReaders, result.numWriters,
                   result.numReads, result.numUpdates)
          EXCEPT !.sharedData =
             IF result.numWriters > 0 /\ result.numUpdates > 0
             THEN [counter |-> 2 * done,
                   text |-> [len |-> PayloadLength, chars |-> "a"]]
             ELSE SharedData]

(* run() has returned with any sequence of at most MaxRows sample rows. *)
InitTable ==
    /\ results \in SeqsUpTo(TableRows, MaxRows)
    /\ testCases = [i \in 1..Len(results) |-> TesterOf(results[i])]
    /\ threads = << >>
    /\ readers = << >>
    /\ writers = << >>
    /\ pc = "print"
    /\ test = "none"
    /\ cur = Len(results) + 1
    /\ output = << >>
    /\ caller = "run"
    /\ runCalls = 1

(* printBenchmarkTable applied to a result sequence. *)
SpecTable == InitTable /\ [][printBenchmarkTable]_vars

(* ---------------------------------------------------------------------- *)
(* Properties                                                              *)
(* ---------------------------------------------------------------------- *)
SharedFns == {"readerSharedLock", "writerSharedLock"}
StandardFns == {"readerStandardLock", "writerStandardLock"}

Live(th) == th.pc # "done"

(* Threads t and u are distinct threads of one run of one LockTester. *)
SameRun(t, u, fns) ==
    /\ t # u
    /\ threads[t].case = threads[u].case
    /\ threads[t].fn \in fns
    /\ threads[u].fn \in fns

(* C1: in the shared-lock run, while a writer is inside its critical       *)
(* section no other writer and no reader of that run is inside one.        *)
C1_WriterExcludesAll ==
    \A t \in Tids, u \in Tids :
        /\ SameRun(t, u, SharedFns)
        /\ threads[t].fn = "writerSharedLock"
        /\ InCS(threads[t])
        => ~InCS(threads[u])

(* A writer of the shared-lock run is mid-update while a reader and        *)
(* another writer of the run wait for the lock.                            *)
C1_Witness ==
    \E t \in Tids, u \in Tids, v \in Tids :
        /\ SameRun(t, u, SharedFns) /\ SameRun(t, v, SharedFns)
        /\ threads[t].fn = "writerSharedLock" /\ threads[t].pc = "incremented"
        /\ threads[u].fn = "readerSharedLock" /\ threads[u].pc = "loop"
        /\ threads[u].i < LoopBound(threads[u])
        /\ threads[v].fn = "writerSharedLock" /\ threads[v].pc = "loop"
        /\ threads[v].i < LoopBound(threads[v])

(* C2: in the exclusive-lock run at most one thread, reader or writer, is  *)
(* inside a critical section.                                              *)
C2_AtMostOneInside ==
    \A c \in 1..Len(testCases) :
        Cardinality({t \in Tids : /\ threads[t].case = c
                                  /\ threads[t].fn \in StandardFns
                                  /\ InCS(threads[t])}) <= 1

(* A reader of the exclusive-lock run is inside while another reader of    *)
(* the run waits for the lock.                                             *)
C2_Witness ==
    \E t \in Tids, u \in Tids :
        /\ SameRun(t, u, StandardFns)
        /\ threads[t].fn = "readerStandardLock" /\ threads[t].pc = "read_counter"
        /\ threads[u].fn = "readerStandardLock" /\ threads[u].pc = "loop"
        /\ threads[u].i < LoopBound(threads[u])

(* W x U of the LockTester that run() is working on. *)
Updates(c) == testCases[c].numWriters * testCases[c].numUpdates

(* C3 as stated: the counter is W x U when the shared-lock run returns and *)
(* W x U when the exclusive-lock run of the same trial returns.            *)
C3_Original ==
    /\ pc = "run_standard" => testCases[cur].sharedData.counter = Updates(cur)
    /\ pc = "run_result" => testCases[cur].sharedData.counter = Updates(cur)

(* C3 amended: the counter is W x U when the shared-lock run returns, and  *)
(* 2 x W x U when the exclusive-lock run that follows it on the same       *)
(* record returns.                                                         *)
C3_CounterAfterRuns ==
    /\ pc = "run_standard" => testCases[cur].sharedData.counter = Updates(cur)
    /\ pc = "run_result" => testCases[cur].sharedData.counter = 2 * Updates(cur)

(* Both runs of a trial with two writers have returned. *)
C3_Witness ==
    /\ pc = "run_result"
    /\ testCases[cur].numWriters = 2
    /\ testCases[cur].numUpdates >= 1
    /\ testCases[cur].sharedData.counter = 2 * Updates(cur)

(* Some worker has not finished, or main has not left, and nothing can     *)
(* take a step.                                                            *)
Deadlock == pc # "exit" /\ ~ENABLED NextRun

(* C4: no reachable state is a deadlock, and under fair scheduling every   *)
(* run that starts returns and main reaches its end.                       *)
C4_RunsComplete ==
    /\ []~Deadlock
    /\ (pc = "test") ~> (pc = "test_return")
    /\ <>(pc = "exit")

(* main has finished for the all-zero configuration. *)
C4_Witness ==
    /\ pc = "exit"
    /\ Len(results) = 1
    /\ results[1].numReaders = 0 /\ results[1].numWriters = 0
    /\ results[1].numReads = 0 /\ results[1].numUpdates = 0

(* C5: when a run has recorded its time it has spawned exactly readerCount *)
(* readers and writerCount writers and all of them have finished; outside  *)
(* a run no worker thread is live.                                         *)
C5_ForkJoin ==
    /\ pc = "test_return" =>
          /\ Len(readers) = testCases[cur].numReaders
          /\ Len(writers) = testCases[cur].numWriters
          /\ \A k \in 1..Len(readers) :
                threads[readers[k].id] = [Thread(cur, ReaderFn(test)) EXCEPT
                    !.pc = "done", !.i = testCases[cur].numReads]
          /\ \A k \in 1..Len(writers) :
                threads[writers[k].id] = [Thread(cur, WriterFn(test)) EXCEPT
                    !.pc = "done", !.i = testCases[cur].numUpdates]
          /\ Len(threads) = Len(readers) + Len(writers)
    /\ pc # "test" => \A t \in Tids : ~Live(threads[t])
    /\ pc \notin {"test", "test_return"} => threads = << >>

(* A run with two readers and two writers has recorded its time. *)
C5_Witness ==
    /\ pc = "test_return"
    /\ Len(readers) = 2
    /\ Len(writers) = 2

(* C6: every live worker thread belongs to the run main is executing: the  *)
(* current test case and the current test function.                        *)
C6_OneRunAtATime ==
    \A t \in Tids :
        Live(threads[t]) =>
            /\ pc = "test"
            /\ threads[t].case = cur
            /\ threads[t].fn \in {ReaderFn(test), WriterFn(test)}

(* A worker of the second test case is live after the first test case ran  *)
(* workers of its own.                                                     *)
C6_Witness ==
    /\ cur = 2
    /\ Len(results) = 1
    /\ results[1].numReaders + results[1].numWriters >= 1
    /\ \E t \in Tids : Live(threads[t]) /\ threads[t].fn \in StandardFns

Counts(r) == <<r.numReaders, r.numWriters, r.numReads, r.numUpdates>>

(* C7: the i-th result carries the counts of the i-th test case, and when  *)
(* run() has returned there is exactly one result per test case.           *)
C7_ResultsInOrder ==
    /\ Len(results) <= Len(testCases)
    /\ \A i \in 1..Len(results) : Counts(results[i]) = Counts(testCases[i])
    /\ pc \in {"print", "exit"} => Len(results) = Len(testCases)

(* run() has returned for two different configurations. *)
C7_Witness ==
    /\ pc = "print"
    /\ Len(results) = 2
    /\ Counts(results[1]) # Counts(results[2])

(* C8: every result has exactly the two timing keys, and no cell of a      *)
(* printed data row is "N/A".                                              *)
C8_BothKeys ==
    /\ \A i \in 1..Len(results) :
          DOMAIN results[i].times = {"Shared Mutex Time", "Standard Mutex Time"}
    /\ \A k \in 1..Len(output) :
          \A j \in 1..Len(output[k].cells) : output[k].cells[j] # "N/A"

(* A table with two data rows has been printed. *)
C8_Witness ==
    /\ pc = "exit"
    /\ Len(results) = 2
    /\ \E k \in 1..Len(output) : output[k].kind = "row" /\ Len(output[k].cells) = 6

(* C9: two readers are inside their critical sections at the same time     *)
(* only in the shared-lock run.                                            *)
C9_ConcurrentReadersOnlyShared ==
    \A t \in Tids, u \in Tids :
        /\ t # u
        /\ threads[t].case = threads[u].case
        /\ IsReaderFn(threads[t].fn) /\ IsReaderFn(threads[u].fn)
        /\ InCS(threads[t]) /\ InCS(threads[u])
        => threads[t].fn = "readerSharedLock" /\ threads[u].fn = "readerSharedLock"

(* Two readers of the shared-lock run are inside at the same time. *)
C9_Witness ==
    \E t \in Tids, u \in Tids :
        /\ SameRun(t, u, {"readerSharedLock"})
        /\ InCS(threads[t]) /\ InCS(threads[u])

(* C10: while a reader is inside its critical section no writer of the     *)
(* same LockTester is inside one, and what the reader has read so far is   *)
(* what the record holds now.                                              *)
C10_NoTornRead ==
    \A t \in Tids :
        IsReaderFn(threads[t].fn) /\ InCS(threads[t]) =>
            /\ \A u \in Tids :
                  threads[u].case = threads[t].case /\ IsWriterFn(threads[u].fn)
                  => ~InCS(threads[u])
            /\ threads[t].pc \in {"read_counter", "read_text"} =>
                  threads[t].data = testCases[threads[t].case].sharedData.counter
            /\ threads[t].pc = "read_text" =>
                  threads[t].text = testCases[threads[t].case].sharedData.text

(* A reader has read both fields after an update while a writer waits. *)
C10_Witness ==
    \E t \in Tids, u \in Tids :
        /\ threads[t].case = threads[u].case
        /\ IsReaderFn(threads[t].fn) /\ threads[t].pc = "read_text"
        /\ threads[t].data >= 1 /\ threads[t].text.len = PayloadLength
        /\ IsWriterFn(threads[u].fn) /\ threads[u].pc = "loop"
        /\ threads[u].i < LoopBound(threads[u])

(* C11: with no writers, every reader of the shared-lock run that has      *)
(* iterations left can take the shared lock at once, and when the run has  *)
(* recorded its time every reader has done all its reads.                  *)
C11_ReadersNeverBlocked ==
    \A t \in Tids :
        LET th == threads[t]
            tester == testCases[th.case]
        IN th.fn = "readerSharedLock" /\ tester.numWriters = 0 =>
              /\ th.pc = "loop" /\ th.i < tester.numReads =>
                    CanAcquire(tester[LockGuard(th.fn).mutex], LockGuard(th.fn).mode)
              /\ pc = "test_return" => th.i = tester.numReads

(* With no writers, one reader is inside while another is about to lock. *)
C11_Witness ==
    \E t \in Tids, u \in Tids :
        /\ SameRun(t, u, {"readerSharedLock"})
        /\ testCases[threads[t].case].numWriters = 0
        /\ threads[t].pc = "read_counter"
        /\ threads[u].pc = "loop" /\ threads[u].i < LoopBound(threads[u])

NonNegative(r) ==
    r.numReaders >= 0 /\ r.numWriters >= 0 /\ r.numReads >= 0 /\ r.numUpdates >= 0

(* C12: a configuration with a negative count is rejected at construction: *)
(* it never becomes a test case and never a result row.                    *)
C12_NegativeRejected ==
    /\ \A i \in 1..Len(testCases) : NonNegative(testCases[i])
    /\ \A i \in 1..Len(results) : NonNegative(results[i])

(* The i-th column of a printed line as it was laid out: the four count   *)
(* widths, then the widths of the timing columns.                          *)
LayoutWidths(res) ==
    <<readers_width, writers_width, reads_width, updates_width>>
        \o ColumnWidths(res)

(* C13: every cell is at most as wide as its column, and all printed lines *)
(* have the same length.                                                   *)
C13_Aligned ==
    pc = "exit" =>
        /\ \A k \in 1..Len(output) :
              \A j \in 1..Len(output[k].cells) :
                  Len(output[k].cells[j]) <= LayoutWidths(results)[j]
        /\ \A k \in 1..Len(output) : Len(output[k].text) = Len(output[1].text)

BothKeys == {"Shared Mutex Time", "Standard Mutex Time"}

(* C14: whichever of the two runs of one LockTester is called first, the   *)
(* shared-lock run leaves standardMutex untouched and the exclusive-lock   *)
(* run leaves sharedMutex untouched, each returned run has added W x U to  *)
(* the counter, and under fair scheduling both runs return with both       *)
(* timing keys recorded.                                                   *)
C14_EitherOrder ==
    /\ [](test = "testSharedMutex" => testCases[cur].standardMutex = FreeMutex)
    /\ [](test = "testStandardMutex" => testCases[cur].sharedMutex = FreeMutex)
    /\ [](pc = "user" =>
            testCases[cur].sharedData.counter =
                Cardinality(DOMAIN testCases[cur].times) * Updates(cur))
    /\ <>(pc = "user" /\ DOMAIN testCases[cur].times = BothKeys)

(* The shared-lock run returns after the exclusive-lock run was called     *)
(* first, with a writer that updated in both.                              *)
C14_Witness ==
    /\ pc = "test_return"
    /\ test = "testSharedMutex"
    /\ DOMAIN testCases[cur].times = BothKeys
    /\ testCases[cur].numWriters >= 1
    /\ testCases[cur].numUpdates >= 1
    /\ testCases[cur].numReaders >= 1
    /\ testCases[cur].numReads >= 1

ReaderFns == {"readerSharedLock", "readerStandardLock"}
WriterFns == {"writerSharedLock", "writerStandardLock"}

(* Thread t is a holder of mutex m, in either mode. *)
Holds(t, m) == m.excl = t \/ t \in m.shared

(* The mutex the run of thread function fn works under. *)
MutexOf(fn) == IF fn \in SharedFns THEN "sharedMutex" ELSE "standardMutex"

(* Where thread t stands in its loop: never past its bound, finished only  *)
(* at the bound, a holder of its run's mutex exactly while inside a cycle. *)
CyclePosition(t) ==
    LET th == threads[t]
        tester == testCases[th.case]
    IN /\ th.i <= LoopBound(th)
       /\ th.pc = "done" => th.i = LoopBound(th)
       /\ th.pc \in {"loop", "done"} =>
             ~Holds(t, tester.sharedMutex) /\ ~Holds(t, tester.standardMutex)
       /\ InCS(th) => Holds(t, tester[MutexOf(th.fn)])

(* One step of thread t: the next stage of its cycle and nothing else. *)
CycleStep(t) ==
    LET a == threads[t]
        b == threads'[t]
        rec == testCases[a.case].sharedData
        rec2 == testCases'[a.case].sharedData
    IN \/ /\ a.pc = "loop" /\ b.pc = "locked"
          /\ a.i < LoopBound(a) /\ b.i = a.i /\ rec2 = rec
       \/ /\ a.pc = "loop" /\ b.pc = "done"
          /\ a.i = LoopBound(a) /\ b.i = a.i /\ rec2 = rec
       \/ /\ a.fn \in ReaderFns /\ a.pc = "locked" /\ b.pc = "read_counter"
          /\ b.data = rec.counter /\ b.i = a.i /\ rec2 = rec
       \/ /\ a.fn \in ReaderFns /\ a.pc = "read_counter" /\ b.pc = "read_text"
          /\ b.text = rec.text /\ b.i = a.i /\ rec2 = rec
       \/ /\ a.fn \in ReaderFns /\ a.pc = "read_text" /\ b.pc = "loop"
          /\ b.i = a.i + 1 /\ rec2 = rec
       \/ /\ a.fn \in WriterFns /\ a.pc = "locked" /\ b.pc = "loaded"
          /\ b.i = a.i /\ rec2 = rec
       \/ /\ a.fn \in WriterFns /\ a.pc = "loaded" /\ b.pc = "incremented"
          /\ b.i = a.i
          /\ rec2.counter = rec.counter + 1 /\ rec2.text = rec.text
       \/ /\ a.fn \in WriterFns /\ a.pc = "incremented" /\ b.pc = "wrote"
          /\ b.i = a.i
          /\ rec2.counter = rec.counter /\ rec2.text \in generate(PayloadLength)
       \/ /\ a.fn \in WriterFns /\ a.pc = "wrote" /\ b.pc = "loop"
          /\ b.i = a.i + 1 /\ rec2 = rec

(* C15: every worker goes round its cycle (acquire, read counter and text, *)
(* release for a reader; acquire, add exactly 1 to the counter, overwrite  *)
(* the text, release for a writer) exactly as many times as its loop bound *)
(* says, and holds no lock between two cycles or after the last.           *)
C15_ExactCycles ==
    /\ [](\A t \in Tids : CyclePosition(t))
    /\ [][\A t \in (DOMAIN threads) \cap (DOMAIN threads') :
              threads'[t] # threads[t] => CycleStep(t)]_vars

(* A reader and a writer of one run have both finished after one full      *)
(* cycle each.                                                             *)
C15_Witness ==
    \E t \in Tids, u \in Tids :
        /\ threads[t].case = threads[u].case
        /\ threads[t].fn = "readerStandardLock" /\ threads[u].fn = "writerStandardLock"
        /\ threads[t].pc = "done" /\ threads[t].i = 1
        /\ threads[u].pc = "done" /\ threads[u].i = 1

(* Some writer thread of tester c took the step, and it was the only       *)
(* thread, main included, that moved.                                      *)
WriterStepped(c) ==
    /\ pc' = pc
    /\ DOMAIN threads' = DOMAIN threads
    /\ \E t \in Tids :
          /\ threads[t].case = c
          /\ threads[t].fn \in WriterFns
          /\ threads'[t] # threads[t]
          /\ \A u \in Tids \ {t} : threads'[u] = threads[u]

(* C16: a step that changes counter or text of a record is a step of a     *)
(* writer thread of that tester; steps of readers and of main leave the    *)
(* record alone.  So with no writers or no updates the counter stays 0.    *)
C16_OnlyWritersChangeRecord ==
    /\ [][\A c \in (DOMAIN testCases) \cap (DOMAIN testCases') :
              testCases'[c].sharedData # testCases[c].sharedData
                  => WriterStepped(c)]_vars
    /\ [](\A c \in DOMAIN testCases :
              testCases[c].numWriters = 0 \/ testCases[c].numUpdates = 0
                  => testCases[c].sharedData.counter = 0)

(* A reader has read a counter that a writer changed, and its own step     *)
(* left the counter as it found it.                                        *)
C16_Witness ==
    \E t \in Tids :
        /\ threads[t].fn \in ReaderFns
        /\ threads[t].pc = "read_text"
        /\ threads[t].data >= 1
        /\ testCases[threads[t].case].sharedData.counter = threads[t].data

(* The cells of the data row printed for one result under key columns ks.  *)
RowCells(result, ks) ==
    <<to_string(result.numReaders), to_string(result.numWriters),
      to_string(result.numReads), to_string(result.numUpdates)>>
      \o [j \in 1..Len(ks) |-> to_string(result.times[ks[j]]) \o " ms"]

(* C17: for n results the table is 2n+3 lines: separator, header,          *)
(* separator, then per result, in result order, its row and a separator.   *)
(* The header names Readers, Writers, Reads, Updates and then each timing  *)
(* key of the first result once; with no result it names only the four.    *)
C17_TableStructure ==
    pc = "exit" =>
        LET n == Len(results)
            header == output[2].cells
            keys == SubSeq(header, 5, Len(header))
        IN /\ Len(output) = 2 * n + 3
           /\ output[1].kind = "separator"
           /\ output[2].kind = "header"
           /\ output[3].kind = "separator"
           /\ SubSeq(header, 1, 4) = <<"Readers", "Writers", "Reads", "Updates">>
           /\ { keys[j] : j \in 1..Len(keys) } =
                 (IF n = 0 THEN {} ELSE DOMAIN results[1].times)
           /\ \A i \in 1..Len(keys), j \in 1..Len(keys) : keys[i] = keys[j] => i = j
           /\ \A k \in 1..n :
                 /\ output[2 * k + 2].kind = "row"
                 /\ output[2 * k + 2].cells = RowCells(results[k], keys)
                 /\ output[2 * k + 3].kind = "separator"

(* A table of two different results has been printed. *)
C17_Witness ==
    /\ pc = "exit"
    /\ Len(results) = 2
    /\ results[1] # results[2]
    /\ Len(output) = 7

RECURSIVE Increments(_)
(* The increments the writer threads 1..t have completed so far. *)
Increments(t) ==
    IF t = 0 THEN 0
    ELSE Increments(t - 1)
           + (IF threads[t].fn \in WriterFns
              THEN threads[t].i
                     + (IF threads[t].pc \in {"incremented", "wrote"} THEN 1 ELSE 0)
              ELSE 0)

(* C18: no update is lost.  During a run the counter is its value at the   *)
(* start of the run (W x U for every run that returned before) plus the    *)
(* increments the run's writers have completed; a run that returns has     *)
(* added exactly W x U, and after both runs the counter is 2 x W x U.      *)
C18_NoLostUpdate ==
    LET counter == testCases[cur].sharedData.counter
        recorded == Cardinality(DOMAIN testCases[cur].times)
    IN /\ pc = "test" =>
             counter = recorded * Updates(cur) + Increments(Len(threads))
       /\ pc = "test_return" => counter = recorded * Updates(cur)
       /\ pc = "run_result" => counter = 2 * Updates(cur)

(* In the second run of a trial one writer has finished and the other is   *)
(* between its increment and its release.                                  *)
C18_Witness ==
    /\ pc = "test"
    /\ test = "testStandardMutex"
    /\ testCases[cur].numWriters = 2
    /\ testCases[cur].sharedData.counter = 4
    /\ \E t \in Tids : threads[t].pc = "incremented"

(* The test case the j-th result was produced from when every call of      *)
(* run() goes through the stored test cases in order.                      *)
CaseOf(j) == ((j - 1) % Len(testCases)) + 1

(* C19: every call of run() appends one result per stored test case, in    *)
(* test-case order and with both timing keys, and leaves the results that  *)
(* were there untouched; after k calls have returned there are k x N       *)
(* results.                                                                *)
C19_RunAppends ==
    /\ [](pc \in {"print", "exit"} => Len(results) = runCalls * Len(testCases))
    /\ [](pc \in {"run_shared", "test", "test_return", "run_standard", "run_result"}
             => Len(results) = (runCalls - 1) * Len(testCases) + (cur - 1))
    /\ [](\A j \in 1..Len(results) :
             /\ Counts(results[j]) = Counts(testCases[CaseOf(j)])
             /\ DOMAIN results[j].times = BothKeys)
    /\ [][results' # results =>
             /\ Len(results') = Len(results) + 1
             /\ SubSeq(results', 1, Len(results)) = results]_vars

(* A second call of run() on two test cases has returned: four results. *)
C19_Witness ==
    /\ pc = "print"
    /\ runCalls = 2
    /\ Len(testCases) = 2
    /\ Len(results) = 4
    /\ Counts(testCases[1]) # Counts(testCases[2])

(* C20: a worker whose loop has ended holds neither mutex, and whenever no *)
(* run is in progress (a run has just returned, or none has started) both  *)
(* mutexes of every tester have no shared and no exclusive holder.         *)
C20_LocksFreeBetweenRuns ==
    /\ \A t \in Tids :
          threads[t].pc = "done" =>
              /\ ~Holds(t, testCases[threads[t].case].sharedMutex)
              /\ ~Holds(t, testCases[threads[t].case].standardMutex)
    /\ pc # "test" =>
          \A c \in DOMAIN testCases :
              /\ testCases[c].sharedMutex = FreeMutex
              /\ testCases[c].standardMutex = FreeMutex

(* The exclusive-lock run of two readers and two writers returns after     *)
(* every one of them has locked and released.                              *)
C20_Witness ==
    /\ pc = "test_return"
    /\ test = "testStandardMutex"
    /\ Len(threads) = 4
    /\ \A t \in Tids : threads[t].pc = "done" /\ threads[t].i = 1

====
